---- MODULE Spec2Model ----
(***************************************************************************)
(* Model of the UNIX-domain-socket port driver (core/drivers/unix_socket): *)
(* the connection slot (client_fd_ / old_client_fd_), the detached accept  *)
(* thread, the polled receive path with its idle throttle, and the polled  *)
(* send path.  Every access of a field shared between the threads is one   *)
(* step, so that all interleavings of the three control flows are explored.*)
(* The process' descriptor table is part of the state: accept4 and other   *)
(* parts of the process take the lowest free descriptor number, close      *)
(* frees it, dup2 replaces what a number refers to.                        *)
(***************************************************************************)
EXTENDS Integers, Sequences, FiniteSets, TLC

\* ---------------------------------------------------------------- constants
NOT_CONNECTED == -1
RECV_SKIP_TICKS == 256
SNBUF_DATA == 2048  \* "datagrams larger than 2KB will be truncated"

\* ------------------------------------------------------------------- bounds
MaxFd == 4          \* descriptor numbers 1..MaxFd exist in the process
MaxThreads == 3     \* pthread_create fails once this many threads were made
MaxClients == 2     \* peers that ever connect to the listening socket
MaxRecvCnt == 2     \* largest cnt passed to RecvPackets
MaxSendCnt == 3     \* largest cnt passed to SendPackets
MaxOther == 1       \* unrelated descriptors the process holds at a time

VARIABLES
  phase,            \* "constructed" | "running" | "failed" | "deinit"
  recv_skip_cnt_,   \* uint32_t recv_skip_cnt_
  listen_fd_,       \* int listen_fd_
  client_fd_,       \* volatile int client_fd_   (the active slot)
  old_client_fd_,   \* int old_client_fd_        (the retired slot)
  accept_thread_,   \* pthread_t accept_thread_
  fdtab,            \* the process' descriptor table
  acc,              \* the accept threads, by thread id
  nthreads,         \* threads created so far
  nconn,            \* connections accepted so far
  spawn_failed,     \* a pthread_create of CloseConnection has failed
  rx,               \* the RecvPackets call of the receive thread
  tx,               \* the SendPackets call of the send thread
  armed,            \* instrumentation: the last read attempt armed the throttle
  skips             \* instrumentation: throttled calls since it was armed

vars == <<phase, recv_skip_cnt_, listen_fd_, client_fd_, old_client_fd_,
          accept_thread_, fdtab, acc, nthreads, nconn, spawn_failed, rx, tx,
          armed, skips>>

port == <<recv_skip_cnt_, listen_fd_, client_fd_, old_client_fd_,
          accept_thread_>>

\* --------------------------------------------------------- descriptor table
Fds == 1 .. MaxFd
Tids == 1 .. MaxThreads

FdClosed == [kind |-> "closed", id |-> 0]
FdListen == [kind |-> "listen", id |-> 0]
FdOther == [kind |-> "other", id |-> 0]
FdConn(c) == [kind |-> "conn", id |-> c]

\* what a descriptor number refers to; numbers outside the table are invalid
FdObj(tab, fd) == IF fd \in Fds THEN tab[fd] ELSE FdClosed

IsOpen(tab, fd) == FdObj(tab, fd).kind # "closed"

HasFree(tab) == \E fd \in Fds : tab[fd].kind = "closed"

\* the kernel hands out the lowest unused descriptor number
LowestFree(tab) == CHOOSE fd \in Fds :
  /\ tab[fd].kind = "closed"
  /\ \A g \in Fds : g < fd => tab[g].kind # "closed"

\* close(fd): EBADF leaves the table alone
Close(tab, fd) == IF fd \in Fds THEN [tab EXCEPT ![fd] = FdClosed] ELSE tab

\* dup2(oldfd, newfd): EBADF when oldfd is not open or newfd is out of range;
\* otherwise newfd is silently closed and made to refer to oldfd's socket
Dup2(tab, oldfd, newfd) ==
  IF IsOpen(tab, oldfd) /\ newfd \in Fds
  THEN [tab EXCEPT ![newfd] = tab[oldfd]]
  ELSE tab

\* ------------------------------------------------------------ thread locals
\* inst counts the times the thread has put its descriptor into the slot
AccNone == [pc |-> "none", ret |-> NOT_CONNECTED, conn |-> 0,
            target |-> NOT_CONNECTED, err |-> "none", inst |-> 0]

\* an entry of pkts[] the call has not written
NoPkt == [buf |-> 0, len |-> 0, dlen |-> 0, seq |-> 0]

\* pkt, pkts[] and the allocator's view of one RecvPackets call: held is the
\* buffer in pkt (0: none), owned the buffers obtained from snb_alloc and not
\* released, bad_free records an snb_free of a buffer that is not owned,
\* nread counts the datagrams read, last is the outcome of the recv() that
\* has just returned (ret and errno, dead once the next step has run)
RxIdle == [pc |-> "idle", client_fd |-> NOT_CONNECTED, cnt |-> 0,
           received |-> 0, tmp |-> 0, did_alloc |-> FALSE,
           did_read |-> FALSE, closed |-> FALSE, ret |-> 0,
           pkts |-> <<>>, held |-> 0, owned |-> {}, bad_free |-> FALSE,
           nread |-> 0, last |-> "none"]

\* snb_alloc() hands out a buffer nobody owns: the lowest-numbered one
SnbAlloc(owned) ==
  CHOOSE b \in 1 .. (Cardinality(owned) + 1) :
    b \notin owned /\ \A c \in 1 .. (b - 1) : c \in owned

\* snb_free(b) on the call's record r
SnbFree(r, b) ==
  IF b \in r.owned
  THEN [r EXCEPT !.owned = @ \ {b}]
  ELSE [r EXCEPT !.bad_free = TRUE]

TxIdle == [pc |-> "idle", client_fd |-> NOT_CONNECTED, cnt |-> 0, i |-> 0,
           sent |-> 0, log |-> <<>>, freed |-> {}, captured |-> FdClosed,
           ret |-> 0]

\* pthread_create(&accept_thread_, NULL, AcceptThreadMain, this)
Spawn(a, n) == [a EXCEPT ![n + 1] = [AccNone EXCEPT !.pc = "accept"]]

\* -------------------------------------------------------------- construction
Init ==
  /\ phase = "constructed"
  /\ recv_skip_cnt_ = 0
  /\ listen_fd_ = 0
  /\ client_fd_ = 0
  /\ old_client_fd_ = 0
  /\ accept_thread_ = 0
  /\ fdtab = [fd \in Fds |-> FdClosed]
  /\ acc = [t \in Tids |-> AccNone]
  /\ nthreads = 0
  /\ nconn = 0
  /\ spawn_failed = FALSE
  /\ rx = RxIdle
  /\ tx = TxIdle
  /\ armed = FALSE
  /\ skips = 0

\* ------------------------------------------------------ UnixSocketPort::Init
\* socket(), bind() or listen() fails: Init returns an error
PortInitFail ==
  /\ phase = "constructed"
  /\ phase' = "failed"
  /\ client_fd_' = NOT_CONNECTED
  /\ old_client_fd_' = NOT_CONNECTED
  /\ \E sock \in BOOLEAN :
       IF sock /\ HasFree(fdtab)
       THEN /\ listen_fd_' = LowestFree(fdtab)
            /\ fdtab' = [fdtab EXCEPT ![LowestFree(fdtab)] = FdListen]
       ELSE /\ listen_fd_' = -1
            /\ fdtab' = fdtab
  /\ UNCHANGED <<recv_skip_cnt_, accept_thread_, acc, nthreads, nconn,
                 spawn_failed, rx, tx, armed, skips>>

\* socket/bind/listen succeed; pthread_create succeeds or fails
PortInit ==
  /\ phase = "constructed"
  /\ HasFree(fdtab)
  /\ client_fd_' = NOT_CONNECTED
  /\ old_client_fd_' = NOT_CONNECTED
  /\ listen_fd_' = LowestFree(fdtab)
  /\ fdtab' = [fdtab EXCEPT ![LowestFree(fdtab)] = FdListen]
  /\ accept_thread_' = 0
  /\ \E ok \in BOOLEAN :
       IF ok /\ nthreads < MaxThreads
       THEN /\ acc' = Spawn(acc, nthreads)
            /\ nthreads' = nthreads + 1
            /\ phase' = "running"
       ELSE /\ UNCHANGED <<acc, nthreads>>
            /\ phase' = "failed"
  /\ UNCHANGED <<recv_skip_cnt_, nconn, spawn_failed, rx, tx, armed, skips>>

\* ------------------------------------------- UnixSocketPort::AcceptNewClient
\* accept4() returns a new descriptor: a peer has connected
AcceptOk(t) ==
  /\ acc[t].pc = "accept"
  /\ FdObj(fdtab, listen_fd_).kind = "listen"
  /\ nconn < MaxClients
  /\ HasFree(fdtab)
  /\ nconn' = nconn + 1
  /\ fdtab' = [fdtab EXCEPT ![LowestFree(fdtab)] = FdConn(nconn + 1)]
  /\ acc' = [acc EXCEPT ![t] = [@ EXCEPT !.pc = "reset",
                                        !.ret = LowestFree(fdtab),
                                        !.conn = nconn + 1,
                                        !.err = "none"]]
  /\ UNCHANGED <<phase, port, nthreads, spawn_failed, rx, tx, armed, skips>>

\* accept4() fails (EINTR, or an error that is logged): the loop retries
AcceptFail(t) ==
  /\ acc[t].pc = "accept"
  /\ \E e \in {"EINTR", "ERR"} :
       acc' = [acc EXCEPT ![t] = [@ EXCEPT !.err = e]]
  /\ UNCHANGED <<phase, port, fdtab, nthreads, nconn, spawn_failed, rx, tx,
                 armed, skips>>

\* this->recv_skip_cnt_ = 0
AcceptReset(t) ==
  /\ acc[t].pc = "reset"
  /\ recv_skip_cnt_' = 0
  /\ acc' = [acc EXCEPT ![t] = [@ EXCEPT !.pc = "branch"]]
  /\ UNCHANGED <<phase, listen_fd_, client_fd_, old_client_fd_,
                 accept_thread_, fdtab, nthreads, nconn, spawn_failed, rx, tx,
                 armed, skips>>

\* if (this->old_client_fd_ != NOT_CONNECTED)
AcceptBranch(t) ==
  /\ acc[t].pc = "branch"
  /\ acc' = [acc EXCEPT ![t] = [@ EXCEPT !.pc =
               IF old_client_fd_ # NOT_CONNECTED THEN "dup2arg" ELSE "install"]]
  /\ UNCHANGED <<phase, port, fdtab, nthreads, nconn, spawn_failed, rx, tx,
                 armed, skips>>

\* the second argument of dup2 is read from the active slot
AcceptDup2Arg(t) ==
  /\ acc[t].pc = "dup2arg"
  /\ acc' = [acc EXCEPT ![t] = [@ EXCEPT !.pc = "dup2", !.target = client_fd_]]
  /\ UNCHANGED <<phase, port, fdtab, nthreads, nconn, spawn_failed, rx, tx,
                 armed, skips>>

\* dup2(ret, this->client_fd_)
AcceptDup2(t) ==
  /\ acc[t].pc = "dup2"
  /\ fdtab' = Dup2(fdtab, acc[t].ret, acc[t].target)
  /\ acc' = [acc EXCEPT ![t] = [@ EXCEPT !.pc = "close",
                                        !.inst = IF fdtab' # fdtab
                                                 THEN @ + 1 ELSE @]]
  /\ armed' = (armed /\ FdObj(fdtab', client_fd_) = FdObj(fdtab, client_fd_))
  /\ UNCHANGED <<phase, port, nthreads, nconn, spawn_failed, rx, tx, skips>>

\* close(ret); the thread returns
AcceptClose(t) ==
  /\ acc[t].pc = "close"
  /\ fdtab' = Close(fdtab, acc[t].ret)
  /\ acc' = [acc EXCEPT ![t] = [@ EXCEPT !.pc = "done"]]
  /\ UNCHANGED <<phase, port, nthreads, nconn, spawn_failed, rx, tx, armed,
                 skips>>

\* this->client_fd_ = ret; the thread returns
AcceptInstall(t) ==
  /\ acc[t].pc = "install"
  /\ client_fd_' = acc[t].ret
  /\ acc' = [acc EXCEPT ![t] = [@ EXCEPT !.pc = "done", !.inst = @ + 1]]
  /\ armed' = FALSE
  /\ skips' = 0
  /\ UNCHANGED <<phase, recv_skip_cnt_, listen_fd_, old_client_fd_,
                 accept_thread_, fdtab, nthreads, nconn, spawn_failed, rx, tx>>

\* ------------------------------------------- UnixSocketPort::CloseConnection
\* variant: the descriptor is closed while it is moved to the retired slot
CloseConnectionRetire_ClosesFd ==
  /\ rx.pc = "close1"
  /\ old_client_fd_' = client_fd_
  /\ fdtab' = Close(fdtab, client_fd_)
  /\ rx' = [rx EXCEPT !.pc = "close2", !.closed = TRUE, !.last = "none"]
  /\ armed' = FALSE
  /\ UNCHANGED <<phase, recv_skip_cnt_, listen_fd_, client_fd_,
                 accept_thread_, acc, nthreads, nconn, spawn_failed, tx,
                 skips>>

\* this->old_client_fd_ = this->client_fd_
CloseConnectionRetire ==
  /\ rx.pc = "close1"
  /\ old_client_fd_' = client_fd_
  /\ rx' = [rx EXCEPT !.pc = "close2", !.closed = TRUE, !.last = "none"]
  /\ armed' = FALSE
  /\ UNCHANGED <<phase, recv_skip_cnt_, listen_fd_, client_fd_,
                 accept_thread_, fdtab, acc, nthreads, nconn, spawn_failed,
                 tx, skips>>

\* variant: the active slot is not cleared when the connection is lost
CloseConnectionClear_KeepsActive ==
  /\ rx.pc = "close2"
  /\ rx' = [rx EXCEPT !.pc = "close3"]
  /\ UNCHANGED <<phase, recv_skip_cnt_, listen_fd_, client_fd_,
                 old_client_fd_, accept_thread_, fdtab, acc, nthreads, nconn,
                 spawn_failed, tx, armed, skips>>

\* variant: the lost connection's descriptor is closed at once
CloseConnectionClear_ClosesFd ==
  /\ rx.pc = "close2"
  /\ client_fd_' = NOT_CONNECTED
  /\ fdtab' = Close(fdtab, client_fd_)
  /\ rx' = [rx EXCEPT !.pc = "close3"]
  /\ UNCHANGED <<phase, recv_skip_cnt_, listen_fd_, old_client_fd_,
                 accept_thread_, acc, nthreads, nconn, spawn_failed, tx,
                 armed, skips>>

\* this->client_fd_ = NOT_CONNECTED
CloseConnectionClear ==
  /\ rx.pc = "close2"
  /\ client_fd_' = NOT_CONNECTED
  /\ rx' = [rx EXCEPT !.pc = "close3"]
  /\ UNCHANGED <<phase, recv_skip_cnt_, listen_fd_, old_client_fd_,
                 accept_thread_, fdtab, acc, nthreads, nconn, spawn_failed,
                 tx, armed, skips>>

\* ret = pthread_create(...); this->accept_thread_ = 0; a failure is logged
CloseConnectionSpawn ==
  /\ rx.pc = "close3"
  /\ accept_thread_' = 0
  /\ \E ok \in BOOLEAN :
       IF ok /\ nthreads < MaxThreads
       THEN /\ acc' = Spawn(acc, nthreads)
            /\ nthreads' = nthreads + 1
            /\ UNCHANGED spawn_failed
       ELSE /\ UNCHANGED <<acc, nthreads>>
            /\ spawn_failed' = TRUE
  /\ rx' = [rx EXCEPT !.pc = "final"]
  /\ UNCHANGED <<phase, recv_skip_cnt_, listen_fd_, client_fd_,
                 old_client_fd_, fdtab, nconn, tx, armed, skips>>

\* ----------------------------------------------- UnixSocketPort::RecvPackets
\* what the call leaves behind when it returns n
RxReturn(r, n) == [RxIdle EXCEPT !.did_alloc = r.did_alloc,
                                 !.did_read = r.did_read, !.ret = n]

\* variant: the NOT_CONNECTED gate is missing
RecvStart_NoGate ==
  /\ phase = "running"
  /\ rx.pc = "idle"
  /\ rx' = [RxIdle EXCEPT !.pc = "throttle", !.client_fd = client_fd_]
  /\ UNCHANGED <<phase, port, fdtab, acc, nthreads, nconn, spawn_failed, tx,
                 armed, skips>>

\* int client_fd = this->client_fd_; if (client_fd == NOT_CONNECTED) return 0
RecvStart ==
  /\ phase = "running"
  /\ rx.pc = "idle"
  /\ rx' = IF client_fd_ = NOT_CONNECTED
           THEN RxReturn(RxIdle, 0)
           ELSE [RxIdle EXCEPT !.pc = "throttle", !.client_fd = client_fd_]
  /\ UNCHANGED <<phase, port, fdtab, acc, nthreads, nconn, spawn_failed, tx,
                 armed, skips>>

\* if (this->recv_skip_cnt_): the counter is loaded and tested. The gate and
\* the throttle never read the arguments; cnt and pkts[] are first used by
\* the loop, so the call's cnt is drawn where the loop is entered
RecvThrottle ==
  /\ rx.pc = "throttle"
  /\ IF recv_skip_cnt_ # 0
     THEN rx' = [rx EXCEPT !.pc = "dec", !.tmp = recv_skip_cnt_]
     ELSE \E cnt \in 0 .. MaxRecvCnt :
            rx' = [rx EXCEPT !.pc = "loop", !.received = 0, !.cnt = cnt,
                             !.pkts = [k \in 1 .. cnt |-> NoPkt]]
  /\ UNCHANGED <<phase, port, fdtab, acc, nthreads, nconn, spawn_failed, tx,
                 armed, skips>>

\* the value recv_skip_cnt_-- stores; it is only reached with v > 0, so the
\* unsigned subtraction never wraps
SkipDecrement(v) == v - 1

\* this->recv_skip_cnt_--; return 0
RecvDec ==
  /\ rx.pc = "dec"
  /\ recv_skip_cnt_' = SkipDecrement(rx.tmp)
  /\ rx' = RxReturn(rx, 0)
  /\ skips' = IF armed /\ skips <= RECV_SKIP_TICKS THEN skips + 1 ELSE skips
  /\ UNCHANGED <<phase, listen_fd_, client_fd_, old_client_fd_,
                 accept_thread_, fdtab, acc, nthreads, nconn, spawn_failed,
                 tx, armed>>

\* variant: the loop bound is off by one
RecvLoop_OffByOne ==
  /\ rx.pc = "loop"
  /\ IF rx.received <= rx.cnt
     THEN \E pkt \in BOOLEAN :
            rx' = IF pkt THEN [rx EXCEPT !.pc = "recv", !.did_alloc = TRUE,
                                         !.held = SnbAlloc(rx.owned),
                                         !.owned = @ \cup
                                                     {SnbAlloc(rx.owned)},
                                         !.last = "none"]
                         ELSE [rx EXCEPT !.pc = "final", !.last = "none"]
     ELSE rx' = [rx EXCEPT !.pc = "final", !.last = "none"]
  /\ UNCHANGED <<phase, port, fdtab, acc, nthreads, nconn, spawn_failed, tx,
                 armed, skips>>

\* while (received < cnt) { pkt = snb_alloc(); if (!pkt) break;
RecvLoop ==
  /\ rx.pc = "loop"
  /\ IF rx.received < rx.cnt
     THEN \E pkt \in BOOLEAN :
            rx' = IF pkt THEN [rx EXCEPT !.pc = "recv", !.did_alloc = TRUE,
                                         !.held = SnbAlloc(rx.owned),
                                         !.owned = @ \cup
                                                     {SnbAlloc(rx.owned)},
                                         !.last = "none"]
                         ELSE [rx EXCEPT !.pc = "final", !.last = "none"]
     ELSE rx' = [rx EXCEPT !.pc = "final", !.last = "none"]
  /\ UNCHANGED <<phase, port, fdtab, acc, nthreads, nconn, spawn_failed, tx,
                 armed, skips>>

\* what recv() can return on a descriptor number
RecvOutcomes(o) ==
  IF o.kind \in {"conn", "other"}
  THEN {"data", "EAGAIN", "EINTR", "EOF", "ERR"}
  ELSE {"ERR"}

\* variant: an interrupted read is taken for a lost connection
AfterRecv_EintrCloses(r, out) ==
  CASE out = "data"   -> [r EXCEPT !.pc = "loop", !.received = @ + 1]
    [] out = "EAGAIN" -> [r EXCEPT !.pc = "final"]
    [] OTHER          -> [r EXCEPT !.pc = "close1"]

\* where the loop body goes after recv() returned
AfterRecv(r, out) ==
  CASE out = "data"   -> [r EXCEPT !.pc = "loop", !.received = @ + 1]
    [] out = "EAGAIN" -> [r EXCEPT !.pc = "final"]
    [] out = "EINTR"  -> [r EXCEPT !.pc = "loop"]
    [] OTHER          -> [r EXCEPT !.pc = "close1"]

\* the lengths of the datagrams a peer sends: one that fits a buffer and one
\* that is a byte too long for it
DatagramLens == {1, SNBUF_DATA + 1}

\* variant: the read is not limited to the buffer's capacity
RecvLen_NoTruncate(dlen) == dlen

\* what recv(fd, buf, SNBUF_DATA, 0) returns for a datagram of dlen bytes: a
\* SOCK_SEQPACKET read discards the bytes that do not fit
RecvLen(dlen) == IF dlen > SNBUF_DATA THEN SNBUF_DATA ELSE dlen

\* the length snb_append(pkt, n) records in the buffer
SnbAppend(n) == n

\* variant: the unused buffer is not released
StoreOrFree_Leaks(r, out, dlen) ==
  IF out = "data"
  THEN [r EXCEPT !.pkts[r.received + 1] =
                    [buf |-> r.held, len |-> SnbAppend(RecvLen(dlen)),
                     dlen |-> dlen, seq |-> r.nread + 1],
                 !.nread = @ + 1,
                 !.held = 0]
  ELSE [r EXCEPT !.held = 0]

\* ret > 0: snb_append(pkt, ret); pkts[received++] = pkt
\* otherwise: snb_free(pkt)
StoreOrFree(r, out, dlen) ==
  IF out = "data"
  THEN [r EXCEPT !.pkts[r.received + 1] =
                    [buf |-> r.held, len |-> SnbAppend(RecvLen(dlen)),
                     dlen |-> dlen, seq |-> r.nread + 1],
                 !.nread = @ + 1,
                 !.held = 0]
  ELSE [SnbFree(r, r.held) EXCEPT !.held = 0]

\* ret = recv(client_fd, pkt->_data, SNBUF_DATA, 0) and the branches on ret
RecvRead ==
  /\ rx.pc = "recv"
  /\ \E out \in RecvOutcomes(FdObj(fdtab, rx.client_fd)) :
       \E dlen \in DatagramLens :
         /\ out # "data" => dlen = 1
         /\ rx' = AfterRecv(
                    StoreOrFree([rx EXCEPT !.did_read = TRUE, !.last = out],
                                out, dlen),
                    out)
  /\ UNCHANGED <<phase, port, fdtab, acc, nthreads, nconn, spawn_failed, tx,
                 armed, skips>>

\* variant: the backoff is armed one tick short
SkipAfterCall_OneShort(received, old) ==
  IF received = 0 THEN RECV_SKIP_TICKS - 1 ELSE old

\* variant: the backoff is armed after every call that passed the gates
SkipAfterCall_Always(received, old) == RECV_SKIP_TICKS

\* the counter after: if (received == 0) this->recv_skip_cnt_ = RECV_SKIP_TICKS
SkipAfterCall(received, old) == IF received = 0 THEN RECV_SKIP_TICKS ELSE old

\* if (received == 0) ...; return received
RecvFinal ==
  /\ rx.pc = "final"
  /\ recv_skip_cnt_' = SkipAfterCall(rx.received, recv_skip_cnt_)
  /\ rx' = RxReturn(rx, rx.received)
  /\ armed' = (rx.received = 0 /\ rx.did_read /\ ~rx.closed)
  /\ skips' = 0
  /\ UNCHANGED <<phase, listen_fd_, client_fd_, old_client_fd_,
                 accept_thread_, fdtab, acc, nthreads, nconn, spawn_failed,
                 tx>>

\* ----------------------------------------------- UnixSocketPort::SendPackets
\* int client_fd = this->client_fd_; int sent = 0
SendStart(cnt) ==
  /\ phase = "running"
  /\ tx.pc = "idle"
  /\ tx' = [TxIdle EXCEPT !.pc = "write", !.cnt = cnt,
                          !.client_fd = client_fd_,
                          !.captured = FdObj(fdtab, client_fd_)]
  /\ UNCHANGED <<phase, port, fdtab, acc, nthreads, nconn, spawn_failed, rx,
                 armed, skips>>

\* whether sendmsg() can succeed / fail on a descriptor number
SendOutcomes(o) ==
  IF o.kind \in {"conn", "other"} THEN {TRUE, FALSE} ELSE {FALSE}

\* variant: a failed write is skipped and the loop continues
SendWrite_SkipsFailure ==
  /\ tx.pc = "write"
  /\ IF tx.i < tx.cnt
     THEN \E ok \in SendOutcomes(FdObj(fdtab, tx.client_fd)) :
            LET e == [idx |-> tx.i + 1, ok |-> ok,
                      obj |-> FdObj(fdtab, tx.client_fd), gen |-> nconn]
            IN tx' = IF ok
                     THEN [tx EXCEPT !.i = @ + 1, !.sent = @ + 1,
                                     !.log = Append(@, e)]
                     ELSE [tx EXCEPT !.i = @ + 1, !.log = Append(@, e)]
     ELSE tx' = [tx EXCEPT !.pc = "free"]
  /\ UNCHANGED <<phase, port, fdtab, acc, nthreads, nconn, spawn_failed, rx,
                 armed, skips>>

\* variant: a failed write declares the connection lost
SendWrite_DeclaresLoss ==
  /\ tx.pc = "write"
  /\ IF tx.i < tx.cnt
     THEN \E ok \in SendOutcomes(FdObj(fdtab, tx.client_fd)) :
            LET e == [idx |-> tx.i + 1, ok |-> ok,
                      obj |-> FdObj(fdtab, tx.client_fd), gen |-> nconn]
            IN IF ok
               THEN /\ tx' = [tx EXCEPT !.i = @ + 1, !.sent = @ + 1,
                                        !.log = Append(@, e)]
                    /\ UNCHANGED <<client_fd_, old_client_fd_>>
               ELSE /\ tx' = [tx EXCEPT !.pc = "free", !.log = Append(@, e)]
                    /\ old_client_fd_' = client_fd_
                    /\ client_fd_' = NOT_CONNECTED
     ELSE /\ tx' = [tx EXCEPT !.pc = "free"]
          /\ UNCHANGED <<client_fd_, old_client_fd_>>
  /\ UNCHANGED <<phase, recv_skip_cnt_, listen_fd_, accept_thread_, fdtab,
                 acc, nthreads, nconn, spawn_failed, rx, armed, skips>>

\* for (i = 0; i < cnt; i++) { ret = sendmsg(client_fd, &msg, 0);
\*   if (ret < 0) break; sent++; }
SendWrite ==
  /\ tx.pc = "write"
  /\ IF tx.i < tx.cnt
     THEN \E ok \in SendOutcomes(FdObj(fdtab, tx.client_fd)) :
            LET e == [idx |-> tx.i + 1, ok |-> ok,
                      obj |-> FdObj(fdtab, tx.client_fd), gen |-> nconn]
            IN tx' = IF ok
                     THEN [tx EXCEPT !.i = @ + 1, !.sent = @ + 1,
                                     !.log = Append(@, e)]
                     ELSE [tx EXCEPT !.pc = "free", !.log = Append(@, e)]
     ELSE tx' = [tx EXCEPT !.pc = "free"]
  /\ UNCHANGED <<phase, port, fdtab, acc, nthreads, nconn, spawn_failed, rx,
                 armed, skips>>

\* if (sent) snb_free_bulk(pkts, sent); return sent
SendFinal ==
  /\ tx.pc = "free"
  /\ tx' = [TxIdle EXCEPT !.freed = IF tx.sent # 0 THEN 1 .. tx.sent ELSE {},
                          !.ret = tx.sent]
  /\ UNCHANGED <<phase, port, fdtab, acc, nthreads, nconn, spawn_failed, rx,
                 armed, skips>>

\* ---------------------------------------------------- UnixSocketPort::DeInit
\* no data-path call is in flight when the port is torn down
DeInit ==
  /\ phase = "running"
  /\ rx.pc = "idle"
  /\ tx.pc = "idle"
  /\ phase' = "deinit"
  /\ acc' = IF accept_thread_ # 0
            THEN [acc EXCEPT ![accept_thread_] = [@ EXCEPT !.pc = "cancelled"]]
            ELSE acc
  /\ fdtab' = LET t1 == Close(fdtab, listen_fd_)
              IN IF client_fd_ >= 0 THEN Close(t1, client_fd_) ELSE t1
  /\ rx' = RxIdle
  /\ tx' = TxIdle
  /\ armed' = FALSE
  /\ skips' = 0
  /\ UNCHANGED <<port, nthreads, nconn, spawn_failed>>

\* ------------------------------------------------- the rest of the process
NumOther == Cardinality({fd \in Fds : fdtab[fd].kind = "other"})

\* another part of the process opens a descriptor
OtherOpen ==
  /\ phase \in {"running", "deinit"}
  /\ NumOther < MaxOther
  /\ HasFree(fdtab)
  /\ fdtab' = [fdtab EXCEPT ![LowestFree(fdtab)] = FdOther]
  /\ UNCHANGED <<phase, port, acc, nthreads, nconn, spawn_failed, rx, tx,
                 armed, skips>>

\* and closes it again
OtherClose ==
  /\ \E fd \in Fds :
       /\ fdtab[fd].kind = "other"
       /\ fdtab' = Close(fdtab, fd)
  /\ UNCHANGED <<phase, port, acc, nthreads, nconn, spawn_failed, rx, tx,
                 armed, skips>>

\* ---------------------------------------------------------- specification
AcceptNewClient ==
  \E t \in Tids :
    \/ AcceptOk(t)
    \/ AcceptFail(t)
    \/ AcceptReset(t)
    \/ AcceptBranch(t)
    \/ AcceptDup2Arg(t)
    \/ AcceptDup2(t)
    \/ AcceptClose(t)
    \/ AcceptInstall(t)

CloseConnection ==
  \/ CloseConnectionRetire
  \/ CloseConnectionClear
  \/ CloseConnectionSpawn

RecvPackets ==
  \/ RecvStart
  \/ RecvThrottle
  \/ RecvDec
  \/ RecvLoop
  \/ RecvRead
  \/ RecvFinal

SendPackets ==
  \/ \E cnt \in 0 .. MaxSendCnt : SendStart(cnt)
  \/ SendWrite
  \/ SendFinal

Next ==
  \/ PortInit
  \/ PortInitFail
  \/ AcceptNewClient
  \/ CloseConnection
  \/ RecvPackets
  \/ SendPackets
  \/ DeInit
  \/ OtherOpen
  \/ OtherClose

Spec == Init /\ [][Next]_vars

\* ------------------------------------------------------------ vocabulary
\* the accept thread t returns from AcceptNewClient in this step
Finishes(t) == acc[t].pc # "done" /\ acc'[t].pc = "done"

\* thread 1 is the one Init creates; every later one is a relaunch by
\* CloseConnection, i.e. a reconnect
IsRelaunch(t) == t > 1

\* an accept thread is executing AcceptNewClient
AcceptorRunning ==
  \E t \in Tids : acc[t].pc \notin {"none", "done", "cancelled"}

\* the connection the active slot refers to
Active == FdObj(fdtab, client_fd_)

\* a relaunched accept thread has accepted a new connection
NewAccepted == \E t \in Tids : IsRelaunch(t) /\ acc[t].conn # 0

\* the receive thread takes a step of a running port
RecvStep == phase = "running" /\ phase' = "running" /\ rx' # rx

\* the send thread takes a step of a running port
SendStep == phase = "running" /\ phase' = "running" /\ tx' # tx

\* --------------------------------------------------------------------- C1
\* C1: when a relaunched accept thread (second client, after the receive
\* path declared the first connection lost) returns from AcceptNewClient,
\* the active slot is not NOT_CONNECTED and refers to the new connection.
C1_ReconnectServiced ==
  [][\A t \in Tids :
       (phase = "running" /\ IsRelaunch(t) /\ Finishes(t))
         => /\ client_fd_' # NOT_CONNECTED
            /\ FdObj(fdtab', client_fd_') = FdConn(acc[t].conn)]_vars

\* --------------------------------------------------------------------- C2
\* C2: between a successful Init and DeInit, with every pthread_create
\* succeeding, whenever the active slot is NOT_CONNECTED an accept thread is
\* running AcceptNewClient or CloseConnection is about to create one.
C2_AcceptorAlways ==
  (phase = "running" /\ ~spawn_failed /\ client_fd_ = NOT_CONNECTED)
    => (AcceptorRunning \/ rx.pc \in {"close3"})

\* --------------------------------------------------------------------- C3
\* C3: a step that makes the active slot refer to a connection it did not
\* refer to before (a new number in client_fd_, or a new socket under the
\* same number) is taken only while the slot is NOT_CONNECTED: a live active
\* connection is never replaced, so one slot never stands for two peers.
C3_SingleClient ==
  [][(/\ client_fd_' # NOT_CONNECTED
      /\ FdObj(fdtab', client_fd_').kind = "conn"
      /\ FdObj(fdtab', client_fd_') # Active)
       => client_fd_ = NOT_CONNECTED]_vars

\* the first peer is installed while both data paths are in flight on it
C3_Witness ==
  /\ acc[1].pc = "done"
  /\ Active = FdConn(1)
  /\ rx.pc = "recv"
  /\ tx.pc = "write"

\* --------------------------------------------------------------------- C4
\* C4: when a relaunched accept thread completes, the new connection is
\* visible in the active slot and the Idle-Poll Counter is zero, under every
\* interleaving with the RecvPackets call that declared the loss.
C4_ResetOnReconnect ==
  [][\A t \in Tids :
       (phase = "running" /\ IsRelaunch(t) /\ Finishes(t))
         => /\ recv_skip_cnt_' = 0
            /\ FdObj(fdtab', client_fd_').kind = "conn"
            /\ FdObj(fdtab', client_fd_').id = acc[t].conn]_vars

\* --------------------------------------------------------------------- C5
\* the RecvPackets call in progress has passed the throttle gate
PastGate == rx.pc \in {"loop", "recv", "close1", "close2", "close3", "final"}

\* C5: once a call that attempted a read and produced nothing has armed the
\* throttle, and while that connection stays active, every later call is a
\* throttled one (returns 0, no read, counter one lower) until exactly
\* RECV_SKIP_TICKS of them have gone by; only the call after them passes the
\* gate.
C5_IdleThrottle ==
  (phase = "running" /\ armed)
    => /\ client_fd_ # NOT_CONNECTED
       /\ IF PastGate
          THEN skips = RECV_SKIP_TICKS /\ recv_skip_cnt_ = 0
          ELSE /\ skips + recv_skip_cnt_ = RECV_SKIP_TICKS
               /\ (rx.pc = "dec" => rx.tmp = recv_skip_cnt_)
               /\ (rx.pc = "idle" /\ skips > 0
                     => rx.ret = 0 /\ ~rx.did_read /\ ~rx.did_alloc)

\* the call after the RECV_SKIP_TICKS throttled ones is reading the socket
C5_Witness ==
  /\ phase = "running"
  /\ armed
  /\ skips = RECV_SKIP_TICKS
  /\ rx.pc = "recv"

\* --------------------------------------------------------------------- C6
\* C6: a RecvPackets call that finds the active slot NOT_CONNECTED returns 0
\* in its first step, without allocating or reading, and leaves the
\* Idle-Poll Counter, the active slot and the retired slot as they were.
C6_RecvNoConnection ==
  [][(RecvStep /\ rx.pc = "idle" /\ client_fd_ = NOT_CONNECTED)
       => /\ rx'.pc = "idle"
          /\ rx'.ret = 0
          /\ ~rx'.did_alloc
          /\ ~rx'.did_read
          /\ recv_skip_cnt_' = recv_skip_cnt_
          /\ client_fd_' = client_fd_
          /\ old_client_fd_' = old_client_fd_
          /\ fdtab' = fdtab]_vars

\* after the call that lost the connection (which did read), a further call
\* has returned at the gate
C6_Witness ==
  /\ phase = "running"
  /\ client_fd_ = NOT_CONNECTED
  /\ old_client_fd_ # NOT_CONNECTED
  /\ rx.pc = "idle"
  /\ ~rx.did_read
  /\ rx.ret = 0

\* --------------------------------------------------------------------- C7
\* the writes of a log were issued in buffer order
InOrder(log) == \A k \in 1 .. Len(log) : log[k].idx = k

\* the length of the longest all-successful prefix of a log
OkPrefix(log) ==
  IF \A k \in 1 .. Len(log) : log[k].ok
  THEN Len(log)
  ELSE (CHOOSE k \in 1 .. Len(log) :
          ~log[k].ok /\ \A j \in 1 .. (k - 1) : log[j].ok) - 1

\* C7: when SendPackets returns, its writes were issued in buffer order, none
\* after a failed one, none left out before a failure or the end of the
\* batch; it returns the length of the longest all-successful prefix and has
\* released exactly the buffers 1..sent.
C7_SendPrefix ==
  [][(SendStep /\ tx.pc = "free")
       => /\ InOrder(tx.log)
          /\ \A k \in 1 .. (Len(tx.log) - 1) : tx.log[k].ok
          /\ Len(tx.log) = tx.cnt \/ (Len(tx.log) < tx.cnt
                                       /\ ~tx.log[Len(tx.log)].ok)
          /\ tx'.pc = "idle"
          /\ tx'.ret = OkPrefix(tx.log)
          /\ tx'.freed = 1 .. OkPrefix(tx.log)]_vars

\* three buffers, the second write failed: 1 is about to be returned
C7_Witness ==
  /\ tx.pc = "free"
  /\ tx.cnt = 3
  /\ Len(tx.log) = 2
  /\ tx.log[1].ok
  /\ ~tx.log[2].ok
  /\ tx.sent = 1

\* --------------------------------------------------------------------- C8
\* C8: no step of SendPackets changes the active slot, the retired slot or
\* the Idle-Poll Counter, or creates an accept thread; a call that found no
\* active connection returns 0 and releases nothing.
C8_SendNoLossHandling ==
  [][SendStep
       => /\ client_fd_' = client_fd_
          /\ old_client_fd_' = old_client_fd_
          /\ recv_skip_cnt_' = recv_skip_cnt_
          /\ acc' = acc
          /\ nthreads' = nthreads
          /\ (tx.pc = "free" /\ tx.client_fd = NOT_CONNECTED
                => tx'.ret = 0 /\ tx'.freed = {})]_vars

\* every write of a full batch has failed on a live connection
C8_Witness ==
  /\ phase = "running"
  /\ tx.pc = "free"
  /\ tx.captured.kind = "conn"
  /\ Active = tx.captured
  /\ Len(tx.log) = 1
  /\ ~tx.log[1].ok

\* --------------------------------------------------------------------- C9
\* C9: CloseConnection moves the active descriptor number into the retired
\* slot without closing anything; from then until a relaunched accept thread
\* has accepted a new connection, the retired slot keeps that number and the
\* number keeps referring to the same open connection.
C9_RetiredStaysOpen ==
  [][(phase = "running" /\ phase' = "running")
       => /\ (old_client_fd_' # old_client_fd_
                => /\ old_client_fd_' = client_fd_
                   /\ FdObj(fdtab, client_fd_).kind = "conn"
                   /\ fdtab' = fdtab)
          /\ (old_client_fd_ # NOT_CONNECTED /\ ~NewAccepted'
                => /\ old_client_fd_' = old_client_fd_
                   /\ FdObj(fdtab', old_client_fd_).kind = "conn"
                   /\ FdObj(fdtab', old_client_fd_)
                        = FdObj(fdtab, old_client_fd_))]_vars

\* the connection is lost, nobody has reconnected, and a send that captured
\* the descriptor before the loss is still writing to it
C9_Witness ==
  /\ phase = "running"
  /\ client_fd_ = NOT_CONNECTED
  /\ old_client_fd_ # NOT_CONNECTED
  /\ ~NewAccepted
  /\ acc[2].pc = "accept"
  /\ tx.pc = "write"
  /\ tx.client_fd = old_client_fd_
  /\ Len(tx.log) = 1

\* -------------------------------------------------------------------- C10
\* C10: every write of a SendPackets call that succeeded went to the
\* connection the descriptor number referred to when the call captured it;
\* a number that is closed, or that refers to anything else, is never
\* written to successfully.
C10_StaleDescriptor ==
  \A k \in 1 .. Len(tx.log) :
    tx.log[k].ok
      => tx.log[k].obj.kind = "conn" /\ tx.log[k].obj = tx.captured

\* a write on the captured descriptor succeeded after the connection was
\* lost and a second peer had been accepted
C10_Witness ==
  /\ tx.captured = FdConn(1)
  /\ \E k \in 1 .. Len(tx.log) : tx.log[k].ok /\ tx.log[k].gen = 2
  /\ client_fd_ = NOT_CONNECTED
  /\ acc[2].pc = "done"

\* -------------------------------------------------------------------- C11
\* C11: when DeInit returns, no accept thread is running AcceptNewClient any
\* more (an outstanding one was cancelled), so none can install a descriptor
\* afterwards.
C11_DeInitCancels ==
  [][(phase = "running" /\ phase' = "deinit") => ~AcceptorRunning']_vars

\* -------------------------------------------------------------------- C12
\* the entries of pkts[] the call in progress has written
Filled == {k \in 1 .. Len(rx.pkts) : rx.pkts[k] # NoPkt}

\* C12: every datagram of length L read by the call in progress has produced
\* exactly one buffer, whose recorded length is min(L, SNBUF_DATA) (a longer
\* datagram is cut to SNBUF_DATA bytes); a read that returned data never
\* leads into CloseConnection.
C12_RecvFraming ==
  phase = "running"
    => /\ Cardinality(Filled) = rx.nread
       /\ \A k \in Filled :
            /\ rx.pkts[k].dlen >= 1
            /\ rx.pkts[k].len = IF rx.pkts[k].dlen < SNBUF_DATA
                                THEN rx.pkts[k].dlen ELSE SNBUF_DATA
       /\ (rx.last = "data" => rx.pc \notin {"close1", "close2", "close3"})
       /\ (rx.last = "data" => ~rx.closed)

\* an oversized datagram was read and the call goes on to return it
C12_Witness ==
  /\ phase = "running"
  /\ rx.pc = "final"
  /\ rx.received = 2
  /\ rx.pkts[2].dlen = SNBUF_DATA + 1
  /\ rx.pkts[2].len = SNBUF_DATA
  /\ rx.pkts[1].len = 1

\* -------------------------------------------------------------------- C13
\* C13: whenever RecvPackets returns, the returned count n is between 0 and
\* the requested cnt, the entries pkts[1..n] are exactly the ones written,
\* and the k-th entry holds the k-th datagram the call read.
C13_RecvCount ==
  [][(RecvStep /\ rx'.pc = "idle")
       => /\ rx'.ret >= 0
          /\ (rx.pc \in {"idle", "dec"} => rx'.ret = 0)
          /\ (rx.pc \notin {"idle", "dec"}
                => /\ rx'.ret <= rx.cnt
                   /\ rx'.ret = rx.nread
                   /\ \A k \in 1 .. rx.cnt :
                        IF k <= rx'.ret
                        THEN rx.pkts[k] # NoPkt /\ rx.pkts[k].seq = k
                        ELSE rx.pkts[k] = NoPkt)]_vars

\* one datagram was read, then the connection was lost: 1 of 2 is returned
C13_Witness ==
  /\ phase = "running"
  /\ rx.pc = "final"
  /\ rx.cnt = 2
  /\ rx.received = 1
  /\ rx.closed

\* -------------------------------------------------------------------- C14
\* C14: a read leads into CloseConnection exactly when it returned 0 or an
\* error other than EAGAIN/EINTR; would-block ends the loop and an
\* interrupted read retries it, and neither touches the slot or creates a
\* thread.  CloseConnection moves the active number into the retired slot,
\* sets the active slot to NOT_CONNECTED, calls pthread_create (which makes
\* an accept thread unless it fails) and ends the loop; the call then returns
\* the buffers it had collected.
C14_LossDeclared ==
  [][RecvStep
       => /\ (rx.pc = "recv"
                => /\ (rx'.pc = "close1" <=> rx'.last \in {"EOF", "ERR"})
                   /\ (rx'.last = "EAGAIN" => rx'.pc = "final")
                   /\ (rx'.last = "EINTR" => rx'.pc = "loop")
                   /\ (rx'.last # "data" => rx'.received = rx.received))
          /\ (rx.pc \notin {"close1", "close2", "close3"}
                => /\ client_fd_' = client_fd_
                   /\ old_client_fd_' = old_client_fd_
                   /\ acc' = acc
                   /\ nthreads' = nthreads
                   /\ (rx'.closed => rx.closed))
          /\ (rx.pc = "close1"
                => old_client_fd_' = client_fd_ /\ rx'.pc = "close2")
          /\ (rx.pc = "close2"
                => client_fd_' = NOT_CONNECTED /\ rx'.pc = "close3")
          /\ (rx.pc = "close3"
                => /\ rx'.pc = "final"
                   /\ rx'.received = rx.received
                   /\ \/ spawn_failed'
                      \/ /\ nthreads' = nthreads + 1
                         /\ acc'[nthreads'].pc = "accept")
          /\ (rx.pc = "final" => rx'.pc = "idle" /\ rx'.ret = rx.nread)
          /\ (rx.pc = "final" /\ rx.closed
                => /\ client_fd_ = NOT_CONNECTED
                   /\ old_client_fd_ = rx.client_fd)]_vars

\* a datagram was read, the next read hit the peer's shutdown, the loss
\* handling has run and the call is about to return the one buffer
C14_Witness ==
  /\ phase = "running"
  /\ rx.pc = "final"
  /\ rx.closed
  /\ rx.received = 1
  /\ client_fd_ = NOT_CONNECTED
  /\ old_client_fd_ = rx.client_fd
  /\ acc[2].pc = "accept"

\* -------------------------------------------------------------------- C15
\* C15: a call that passed both gates leaves the Idle-Poll Counter at
\* RECV_SKIP_TICKS exactly when it produced no buffer, and at 0 when it
\* produced at least one.
C15_BackoffArming ==
  [][(RecvStep /\ rx.pc = "final")
       => /\ rx'.pc = "idle"
          /\ (rx.nread = 0 <=> recv_skip_cnt_' = RECV_SKIP_TICKS)
          /\ (rx.nread >= 1 => recv_skip_cnt_' = 0)]_vars

\* the allocator was exhausted on the first iteration
C15_Witness ==
  /\ phase = "running"
  /\ rx.pc = "final"
  /\ rx.cnt = 2
  /\ ~rx.did_alloc
  /\ rx.nread = 0

\* -------------------------------------------------------------------- C16
\* C16: every accept thread but the one created last has returned from
\* AcceptNewClient: a thread is only created after the previous one has
\* accepted and written the slot, so at most one is ever in accept4.
C16_OneAcceptor ==
  /\ \A t \in Tids : t < nthreads => acc[t].pc = "done"
  /\ Cardinality({t \in Tids : acc[t].pc = "accept"}) <= 1

\* the relaunched thread is in accept4, the first one has finished
C16_Witness ==
  /\ nthreads = 2
  /\ acc[1].pc = "done"
  /\ acc[2].pc = "accept"
  /\ acc[2].err = "EINTR"

\* -------------------------------------------------------------------- C17
\* C17: when a relaunched accept thread has finished, the previous peer's
\* socket is closed: the only peer socket the process still holds is the
\* newly accepted one.
C17_RetiredClosedOnReconnect ==
  [][\A t \in Tids :
       (phase = "running" /\ IsRelaunch(t) /\ Finishes(t))
         => /\ Cardinality({fd \in Fds : fdtab'[fd].kind = "conn"}) <= 1
            /\ \A fd \in Fds :
                 fdtab'[fd].kind = "conn" => fdtab'[fd].id = acc[t].conn]_vars

\* -------------------------------------------------------------------- C18
\* C18: a failed accept4 is retried without touching the Idle-Poll Counter
\* or the Connection Slot; an accept thread returns only after accept4 has
\* succeeded, having put its descriptor into the slot exactly once, and it
\* never accepts a second connection.
C18_AcceptorOnce ==
  [][\A t \in Tids :
       /\ (acc[t].pc = "accept" /\ acc'[t].pc = "accept" /\ acc'[t] # acc[t]
             => UNCHANGED <<port, fdtab, nconn>>)
       /\ (acc[t].conn # 0 => acc'[t].conn = acc[t].conn)
       /\ (Finishes(t) => acc'[t].conn # 0 /\ acc'[t].inst = 1)]_vars

\* -------------------------------------------------------------------- C19
\* no accept thread is between accept4 and its return
NoAcceptInFlight == \A t \in Tids : acc[t].pc \in {"none", "accept", "done"}

\* C19: when DeInit returns (called never connected, connected, or with a
\* retired descriptor pending), the listening socket and every peer socket
\* of the driver are closed.
C19_DeInitClosesAll ==
  [][(phase = "running" /\ phase' = "deinit" /\ NoAcceptInFlight)
       => \A fd \in Fds : fdtab'[fd].kind \notin {"listen", "conn"}]_vars

\* -------------------------------------------------------------------- C20
\* the buffers stored in pkts[]
ReturnedBufs == {rx.pkts[k].buf : k \in Filled}

\* C20: of the buffers the call in progress has obtained from snb_alloc and
\* not released, each is either the one allocated for the pending read or
\* stored in exactly one entry of pkts[]; snb_free is only ever called on a
\* buffer the call owns (so none is released twice, or released after being
\* stored); outside the read no buffer is pending, so when the call returns
\* every buffer it obtained has been returned once or released once.
C20_BufferConservation ==
  /\ ~rx.bad_free
  /\ rx.owned = ReturnedBufs \cup (IF rx.held = 0 THEN {} ELSE {rx.held})
  /\ rx.held \notin ReturnedBufs
  /\ Cardinality(ReturnedBufs) = Cardinality(Filled)
  /\ (rx.pc # "recv" => rx.held = 0)
  /\ (rx.pc = "recv" => rx.held # 0)

\* a datagram was stored, the buffer of the following would-block read was
\* released, and the call is about to return
C20_Witness ==
  /\ rx.pc = "final"
  /\ rx.last = "EAGAIN"
  /\ rx.received = 1
  /\ rx.owned = {rx.pkts[1].buf}
  /\ rx.cnt = 2

====
